---- MODULE Spec2Model ----
(***************************************************************************)
(* Model of homie/device_base.py (Device_Base): the device lifecycle and   *)
(* topic-state synchronisation engine of the Homie 4 device library.       *)
(*                                                                         *)
(* Every handler of Device_Base is one action.  A handler's body is a      *)
(* composition of "frame" operators, one per method of the class: a frame  *)
(* carries the fields of the device the handler may write and the calls it *)
(* has made on the transport so far; once an exception is raised the       *)
(* remaining statements have no effect (the frame passes through).         *)
(*                                                                         *)
(* Five specifications share these operators:                              *)
(*   Spec        one device among others of the process: its lifecycle,    *)
(*               state assignments, nodes and incoming messages, each      *)
(*               handler run to completion;                                *)
(*   SharedSpec  several devices on one shared transport connection;       *)
(*   DeviceSpec  one device and every operation of the application and the *)
(*               timer on it, the registries included;                     *)
(*   AttrSpec    publish_attributes() over every list of extensions, with  *)
(*               time passing between the calls;                           *)
(*   ConcSpec    one device called from two execution contexts, its        *)
(*               on-connect handling interleaved statement by statement.   *)
(* Time is read only for the payloads of $stats/uptime and                 *)
(* $stats/lastupdate; the clock advances in AttrSpec, where payloads are   *)
(* compared, and stands still in the other specifications.                 *)
(***************************************************************************)
EXTENDS Naturals, Sequences, FiniteSets, TLC

(***************************************************************************)
(* Bounds of the model.                                                    *)
(***************************************************************************)
MaxDevices == 2     \* Device_Base instances constructed in the process
MaxNodes == 1       \* distinct node ids
MaxClock == 2       \* readings of the clock, in update intervals

(***************************************************************************)
(* Module-level constants of device_base.py.                               *)
(***************************************************************************)
DEVICE_STATES == {"init", "ready", "disconnected", "sleeping", "alert", "lost"}

HOMIE_SETTINGS ==
    [version |-> "4.0.0", topic |-> "homie", fw_name |-> "homie4",
     fw_version |-> "homie.__version__", update_interval |-> "60",
     implementation |-> "sys.platform"]

EXTENSIONS == {"stats", "firmware", "meta"}

\* the default of the constructor's extensions argument
DefaultExtensions == <<"stats", "firmware", "meta">>

\* extension lists handed to the constructor (each passes the assert of l.70-71)
ExtensionChoices == {<<>>, <<"firmware">>, DefaultExtensions}

Devices == 1..MaxDevices

\* the execution contexts that call into a device: the transport's network
\* thread (its callbacks) and the application's thread (start)
Contexts == {"transport", "application"}

NodeNames == <<"node1", "node2", "node3", "node4">>
NodeIds == {NodeNames[i] : i \in 1..MaxNodes}

\* values assigned to the state property: the enumeration and one outside it
StateInputs == DEVICE_STATES \cup {"bogus"}

VARIABLES
    instance_count,              \* module global instance_count
    repeating_timer,             \* module global: "None" or the callbacks added
    tracked,                     \* the constructed devices the application uses
    extensions,                  \* self.extensions
    shared,                      \* self.mqtt_client.using_shared_mqtt_client
    start_time,                  \* self.start_time: "None" or "set"
    _mqtt_connected,             \* self._mqtt_connected
    _state,                      \* self._state
    nodes,                       \* self.nodes: the ids, in insertion order
    nodes_published,             \* self.nodes_published
    mqtt_subscription_handlers,  \* self.mqtt_subscription_handlers
    client_connected,            \* mqtt_client.mqtt_connected, per client
    calls,                       \* transport calls made by the last handler
    invoked,                     \* handlers invoked by the last handler
    raised,                      \* exception the last handler ended with
    last,                        \* the last handler run and its arguments
    edge_runs,                   \* connect sequences begun since the last disconnect event
    will_callers,                \* the devices that have called set_will so far
    pc,                          \* ConcSpec: the statement each execution context is at
    clock,                       \* time.time(), datetime.now()
    started_at,                  \* the reading of the clock held by self.start_time
    sequence_done,               \* a connect sequence has run to its end since the last disconnect event
    state_published,             \* payload of the device's last publish to $state, "none" before the first
    attrs_history                   \* AttrSpec: the publishes of the last two publish_attributes() calls

vars == <<instance_count, repeating_timer, tracked, extensions, shared, start_time,
          _mqtt_connected, _state, nodes, nodes_published,
          mqtt_subscription_handlers, client_connected, calls, invoked, raised,
          last, edge_runs, will_callers, pc, clock, started_at, sequence_done,
          state_published, attrs_history>>

(***************************************************************************)
(* Strings.                                                                *)
(***************************************************************************)
RECURSIVE Join(_, _)
\* sep.join(parts)
Join(sep, parts) ==
    IF parts = <<>> THEN ""
    ELSE IF Len(parts) = 1 THEN parts[1]
    ELSE parts[1] \o sep \o Join(sep, Tail(parts))

Contains(seq, x) == \E i \in 1..Len(seq) : seq[i] = x

\* "device{:04d}".format(instance_number)
generate_device_id(d) == "device000" \o <<"1", "2", "3", "4", "5", "6", "7", "8", "9">>[d]

\* self.topic
topic(d) == Join("/", <<HOMIE_SETTINGS.topic, generate_device_id(d)>>)

\* "/".join((self.topic, segment))
Topic(d, segment) == Join("/", <<topic(d), segment>>)

\* a reading of the clock formatted as a payload
TimeStr(n) == <<"0", "1", "2", "3", "4", "5", "6", "7", "8", "9">>[n + 1]

\* the client a device publishes through: the shared one (0) or its own
ClientOf(d) == IF shared[d] THEN 0 ELSE d
Clients == {0} \cup Devices

(***************************************************************************)
(* The node collaborator (homie/node): its contract as Device_Base uses it.*)
(***************************************************************************)
\* node.get_subscriptions(): one settable property per node
NodeSubscriptions(d, n) ==
    << [topic |-> Join("/", <<topic(d), n, "prop", "set">>), handler |-> n \o ".set"] >>

NodeTopics(d) == {NodeSubscriptions(d, n)[1].topic : n \in NodeIds}

(***************************************************************************)
(* Frames.                                                                 *)
(***************************************************************************)
Frame(d) ==
    [calls |-> <<>>, raised |-> "none", invoked |-> <<>>,
     start |-> start_time[d], since |-> started_at[d], now |-> clock, conn |-> _mqtt_connected[d], st |-> _state[d],
     ns |-> nodes[d], npub |-> nodes_published[d],
     subs |-> mqtt_subscription_handlers[d]]

Call(op, t, payload, retain, qos) ==
    [op |-> op, topic |-> t, payload |-> payload, retain |-> retain, qos |-> qos]

Raise(f, exc) == IF f.raised # "none" THEN f ELSE [f EXCEPT !.raised = exc]

\* a call on the transport, which returns without waiting
Emit(f, c) == IF f.raised # "none" THEN f ELSE [f EXCEPT !.calls = Append(@, c)]

\* Device_Base.publish
publish(f, t, payload, retain, qos) == Emit(f, Call("publish", t, payload, retain, qos))

\* the setter publishing before it assigns: the value published is the old one
state_setter_stale(f, d, state) ==
    IF f.raised # "none" THEN f
    ELSE IF state \in DEVICE_STATES
         THEN publish([f EXCEPT !.st = state], Topic(d, "$state"), f.st, TRUE, 1)
         ELSE f

\* the setter without the test of l.124
state_setter_unvalidated(f, d, state) ==
    IF f.raised # "none" THEN f
    ELSE publish([f EXCEPT !.st = state], Topic(d, "$state"), state, TRUE, 1)

\* Device_Base.state (setter): a property setter receives the value only, so
\* retain and qos are always the defaults
state_setter(f, d, state) ==
    IF f.raised # "none" THEN f
    ELSE IF state \in DEVICE_STATES
         THEN LET g == [f EXCEPT !.st = state]
              IN  publish(g, Topic(d, "$state"), g.st, TRUE, 1)
         ELSE f

\* publish_statastics taking an unset start_time for the present time
publish_statastics_unstarted(f, d, retain, qos) ==
    LET g1 == publish(f, Topic(d, "$stats/interval"), HOMIE_SETTINGS.update_interval, retain, qos)
        g2 == publish(g1, Topic(d, "$stats/uptime"),
                      IF g1.start = "None" THEN TimeStr(0) ELSE TimeStr(g1.now - g1.since), retain, qos)
    IN  publish(g2, Topic(d, "$stats/lastupdate"), TimeStr(g2.now), retain, qos)

\* Device_Base.publish_statastics: time.time() - self.start_time raises a TypeError
\* while start_time is None
publish_statastics(f, d, retain, qos) ==
    LET g1 == publish(f, Topic(d, "$stats/interval"), HOMIE_SETTINGS.update_interval, retain, qos)
        g2 == IF g1.start = "None"
              THEN Raise(g1, "TypeError")
              ELSE publish(g1, Topic(d, "$stats/uptime"), TimeStr(g1.now - g1.since), retain, qos)
    IN  publish(g2, Topic(d, "$stats/lastupdate"), TimeStr(g2.now), retain, qos)

\* Device_Base.publish_firmware
publish_firmware(f, d, retain, qos) ==
    LET g1 == publish(f, Topic(d, "$localip"), "ip", retain, qos)
        g2 == publish(g1, Topic(d, "$mac"), "mac", retain, qos)
        g3 == publish(g2, Topic(d, "$fw/name"), HOMIE_SETTINGS.fw_name, retain, qos)
        g4 == publish(g3, Topic(d, "$fw/version"), HOMIE_SETTINGS.fw_version, retain, qos)
    IN  publish(g4, Topic(d, "$implementation"), HOMIE_SETTINGS.implementation, retain, qos)

\* publish_extensions announcing $extensions only while the device is in init
publish_extensions_once(f, d, retain, qos) ==
    LET exts == Join(",", extensions[d])
        g1 == IF exts # "" /\ f.st = "init"
              THEN publish(f, Topic(d, "$extensions"), exts, retain, qos) ELSE f
        g2 == IF Contains(extensions[d], "stats") THEN publish_statastics(g1, d, retain, qos) ELSE g1
    IN  IF Contains(extensions[d], "firmware") THEN publish_firmware(g2, d, retain, qos) ELSE g2

\* Device_Base.publish_extensions
publish_extensions(f, d, retain, qos) ==
    LET exts == Join(",", extensions[d])
        g1 == IF exts # "" THEN publish(f, Topic(d, "$extensions"), exts, retain, qos) ELSE f
        g2 == IF Contains(extensions[d], "stats") THEN publish_statastics(g1, d, retain, qos) ELSE g1
    IN  IF Contains(extensions[d], "firmware") THEN publish_firmware(g2, d, retain, qos) ELSE g2

\* publish_attributes with l.137 moved before the extension publishes
publish_attributes_ready_first(f, d, retain, qos) ==
    LET g1 == publish(f, Topic(d, "$homie"), HOMIE_SETTINGS.version, retain, qos)
        g2 == publish(g1, Topic(d, "$name"), "name", retain, qos)
        g3 == publish(g2, Topic(d, "$implementation"), HOMIE_SETTINGS.implementation, retain, qos)
        g4 == state_setter(g3, d, "ready")
    IN  publish_extensions(g4, d, retain, qos)

\* Device_Base.publish_attributes
publish_attributes(f, d, retain, qos) ==
    LET g1 == publish(f, Topic(d, "$homie"), HOMIE_SETTINGS.version, retain, qos)
        g2 == publish(g1, Topic(d, "$name"), "name", retain, qos)
        g3 == publish(g2, Topic(d, "$implementation"), HOMIE_SETTINGS.implementation, retain, qos)
        g4 == publish_extensions(g3, d, retain, qos)
    IN  state_setter(g4, d, "ready")

\* node.publish_attributes(retain, qos), a call on the node collaborator
NodePublishAttributes(f, d, n, retain, qos) ==
    Emit(f, Call("node.publish_attributes", Join("/", <<topic(d), n>>), "", retain, qos))

RECURSIVE PublishEachNode(_, _, _, _, _)
\* the loop of publish_nodes over self.nodes.items()
PublishEachNode(f, d, ns, retain, qos) ==
    IF ns = <<>> THEN f
    ELSE PublishEachNode(NodePublishAttributes(f, d, Head(ns), retain, qos), d, Tail(ns), retain, qos)

\* Device_Base.publish_nodes
publish_nodes(f, d, retain, qos) ==
    LET g1 == publish(f, Topic(d, "$nodes"), Join(",", f.ns), retain, qos)
        g2 == IF g1.raised = "none" THEN [g1 EXCEPT !.npub = TRUE] ELSE g1
    IN  PublishEachNode(g2, d, g2.ns, retain, qos)

\* Device_Base.add_subscription
add_subscription(f, t, handler, qos) ==
    IF f.raised # "none" THEN f
    ELSE Emit([f EXCEPT !.subs = [x \in (DOMAIN @) \cup {t} |-> IF x = t THEN handler ELSE @[x]]],
              Call("subscribe", t, "", FALSE, qos))

RECURSIVE AddEachSubscription(_, _)
\* the inner loop of subscribe_topics over node.get_subscriptions().items()
AddEachSubscription(f, subs) ==
    IF subs = <<>> THEN f
    ELSE AddEachSubscription(add_subscription(f, Head(subs).topic, Head(subs).handler, 0), Tail(subs))

RECURSIVE SubscribeEachNode(_, _, _)
\* the outer loop of subscribe_topics over self.nodes.items()
SubscribeEachNode(f, d, ns) ==
    IF ns = <<>> THEN f
    ELSE SubscribeEachNode(AddEachSubscription(f, NodeSubscriptions(d, Head(ns))), d, Tail(ns))

\* subscribe_topics without its loop over the nodes
subscribe_topics_broadcast_only(f, d) ==
    add_subscription(f, Topic(d, "$broadcast/#"), "broadcast_handler", 0)

\* Device_Base.subscribe_topics
subscribe_topics(f, d) ==
    LET g1 == add_subscription(f, Topic(d, "$broadcast/#"), "broadcast_handler", 0)
    IN  SubscribeEachNode(g1, d, g1.ns)

\* every device registers a last will
WillAlways(d) == TRUE

\* only devices with a client of their own register a last will
WillNotShared(d) == shared[d] = FALSE

\* the condition of l.243: not a shared client, or the first instance
WillCondition(d) == shared[d] = FALSE \/ d = 1

\* the last-will step of mqtt_on_connection (l.243-245)
SetWill(f, d) ==
    IF WillCondition(d)
    THEN Emit(f, Call("set_will", Topic(d, "$state"), "lost", TRUE, 1))
    ELSE f

\* the sequence with l.241 and l.242 exchanged
ConnectSequence_SubscribeFirst(f, d) ==
    LET g1 == publish_attributes(f, d, TRUE, 1)
        g2 == subscribe_topics(g1, d)
        g3 == publish_nodes(g2, d, TRUE, 1)
    IN  SetWill(g3, d)

\* the on-connect sequence of mqtt_on_connection (l.240-245)
ConnectSequence(f, d) ==
    LET g1 == publish_attributes(f, d, TRUE, 1)
        g2 == publish_nodes(g1, d, TRUE, 1)
        g3 == subscribe_topics(g2, d)
    IN  SetWill(g3, d)

\* mqtt_on_connection without the test of l.238
mqtt_on_connection_unguarded(f, d, connected) ==
    IF connected
    THEN ConnectSequence([f EXCEPT !.conn = TRUE], d)
    ELSE [f EXCEPT !.conn = FALSE]

\* mqtt_on_connection announcing the loss of the connection itself
mqtt_on_connection_sets_lost(f, d, connected) ==
    IF connected
    THEN IF f.conn = FALSE
         THEN ConnectSequence([f EXCEPT !.conn = TRUE], d)
         ELSE f
    ELSE state_setter([f EXCEPT !.conn = FALSE], d, "lost")

\* Device_Base.mqtt_on_connection
mqtt_on_connection(f, d, connected) ==
    IF connected
    THEN IF f.conn = FALSE
         THEN ConnectSequence([f EXCEPT !.conn = TRUE], d)
         ELSE f
    ELSE [f EXCEPT !.conn = FALSE]

\* mqtt_on_message without the test of l.252
mqtt_on_message_any_retain(f, t, payload, retain, qos) ==
    IF t \in DOMAIN f.subs
    THEN [f EXCEPT !.invoked = Append(@, [handler |-> f.subs[t], topic |-> t, payload |-> payload])]
    ELSE f

\* mqtt_on_message looking the handler up without the test of l.250
mqtt_on_message_unchecked(f, t, payload, retain, qos) ==
    IF retain = FALSE
    THEN IF t \in DOMAIN f.subs
         THEN [f EXCEPT !.invoked = Append(@, [handler |-> f.subs[t], topic |-> t, payload |-> payload])]
         ELSE Raise(f, "KeyError")
    ELSE f

\* Device_Base.mqtt_on_message
mqtt_on_message(f, t, payload, retain, qos) ==
    IF t \in DOMAIN f.subs
    THEN IF retain = FALSE
         THEN [f EXCEPT !.invoked = Append(@, [handler |-> f.subs[t], topic |-> t, payload |-> payload])]
         ELSE f
    ELSE f

\* add_node without the test of nodes_published
add_node_always(f, d, n) ==
    LET g == [f EXCEPT !.ns = IF Contains(@, n) THEN @ ELSE Append(@, n)]
    IN  publish_nodes(g, d, TRUE, 1)

\* Device_Base.add_node
add_node(f, d, n) ==
    LET g == [f EXCEPT !.ns = IF Contains(@, n) THEN @ ELSE Append(@, n)]
    IN  IF g.npub THEN publish_nodes(g, d, TRUE, 1) ELSE g

\* del mapping[key] on a registry held as a function
Without(mapping, key) ==
    IF DOMAIN mapping \subseteq {key} THEN <<>>
    ELSE [x \in (DOMAIN mapping) \ {key} |-> mapping[x]]

\* remove_node republishing with the default retain
remove_node_retained(f, d, n) ==
    IF Contains(f.ns, n)
    THEN LET g == [f EXCEPT !.ns = SelectSeq(@, LAMBDA x : x # n)]
         IN  IF g.npub THEN publish_nodes(g, d, TRUE, 1) ELSE g
    ELSE Raise(f, "KeyError")

\* Device_Base.remove_node: del self.nodes[node_id] raises a KeyError for an id
\* that is not a key
remove_node(f, d, n) ==
    IF Contains(f.ns, n)
    THEN LET g == [f EXCEPT !.ns = SelectSeq(@, LAMBDA x : x # n)]
         IN  IF g.npub THEN publish_nodes(g, d, FALSE, 1) ELSE g
    ELSE Raise(f, "KeyError")

\* remove_subscription tolerating a topic that is not registered
remove_subscription_quiet(f, t) ==
    LET g == Emit(f, Call("unsubscribe", t, "", FALSE, 0))
    IN  IF g.raised # "none" THEN g ELSE [g EXCEPT !.subs = Without(@, t)]

\* Device_Base.remove_subscription: the unsubscribe call is made first, then
\* del self.mqtt_subscription_handlers[topic] raises a KeyError for a topic
\* that is not a key
remove_subscription(f, t) ==
    LET g == Emit(f, Call("unsubscribe", t, "", FALSE, 0))
    IN  IF g.raised # "none" THEN g
        ELSE IF t \in DOMAIN g.subs
             THEN [g EXCEPT !.subs = Without(@, t)]
             ELSE Raise(g, "KeyError")

\* cleanup assigning the field without going through the setter
cleanup_unpublished(f, d) == [f EXCEPT !.st = "disconnected"]

\* Device_Base.cleanup
cleanup(f, d) == state_setter(f, d, "disconnected")

\* Device_Base.publish_uptime: time.time() - self.start_time raises a TypeError
\* while start_time is None
publish_uptime(f, d, retain, qos) ==
    LET g == IF f.start = "None"
             THEN Raise(f, "TypeError")
             ELSE publish(f, Topic(d, "$stats/uptime"), TimeStr(f.now - f.since), retain, qos)
    IN  publish(g, Topic(d, "$stats/lastupdate"), TimeStr(g.now), retain, qos)

\* the record of a handler run: its name, the device, its string argument (a
\* state, a node id, a topic) and its boolean one (connected, retain)
Op(op, d, arg, flag) == [op |-> op, dev |-> d, arg |-> arg, flag |-> flag]

(***************************************************************************)
(* State.                                                                  *)
(***************************************************************************)
Init ==
    /\ instance_count = 0
    /\ repeating_timer = "None"
    /\ tracked = {}
    /\ extensions = [d \in Devices |-> <<>>]
    /\ shared = [d \in Devices |-> FALSE]
    /\ start_time = [d \in Devices |-> "None"]
    /\ _mqtt_connected = [d \in Devices |-> FALSE]
    /\ _state = [d \in Devices |-> "init"]
    /\ nodes = [d \in Devices |-> <<>>]
    /\ nodes_published = [d \in Devices |-> FALSE]
    /\ mqtt_subscription_handlers = [d \in Devices |-> <<>>]
    /\ client_connected = [c \in Clients |-> FALSE]
    /\ calls = <<>>
    /\ invoked = <<>>
    /\ raised = "none"
    /\ last = Op("none", 0, "", FALSE)
    /\ edge_runs = [d \in Devices |-> 0]
    /\ will_callers = {}
    /\ pc = [c \in Contexts |-> "idle"]
    /\ clock = 0
    /\ started_at = [d \in Devices |-> 0]
    /\ sequence_done = [d \in Devices |-> FALSE]
    /\ state_published = [d \in Devices |-> "none"]
    /\ attrs_history = <<>>

WillCount(cs) == Cardinality({i \in 1..Len(cs) : cs[i].op = "set_will"})

\* a connect sequence leaves its first publish, $homie, in the calls of the handler
SequencesBegun(d, cs) == Cardinality({i \in 1..Len(cs) : cs[i].topic = Topic(d, "$homie")})

\* the handler op, with frame f, ran the on-connect sequence of d to its end
Completes(d, f, op) ==
    /\ f.raised = "none"
    /\ \/ op.op = "set_will"
       \/ op.op \in {"mqtt_on_connection", "start"} /\ SequencesBegun(d, f.calls) = 1

\* the payload of the last publish to <topic>/$state among the calls cs, or
\* before when there is none
LastStatePublished(d, cs, before) ==
    LET at == {i \in 1..Len(cs) : cs[i].op = "publish" /\ cs[i].topic = Topic(d, "$state")}
    IN  IF at = {} THEN before
        ELSE cs[CHOOSE i \in at : \A j \in at : j <= i].payload

\* a frame written back to the device, and the record of what was done
CommitFields(d, f, op) ==
    /\ start_time' = [start_time EXCEPT ![d] = f.start]
    /\ started_at' = [started_at EXCEPT ![d] = f.since]
    /\ sequence_done' = [sequence_done EXCEPT ![d] =
                            IF f.conn = FALSE THEN FALSE ELSE @ \/ Completes(d, f, op)]
    /\ state_published' = [state_published EXCEPT ![d] = LastStatePublished(d, f.calls, @)]
    /\ _mqtt_connected' = [_mqtt_connected EXCEPT ![d] = f.conn]
    /\ _state' = [_state EXCEPT ![d] = f.st]
    /\ nodes' = [nodes EXCEPT ![d] = f.ns]
    /\ nodes_published' = [nodes_published EXCEPT ![d] = f.npub]
    /\ mqtt_subscription_handlers' = [mqtt_subscription_handlers EXCEPT ![d] = f.subs]
    /\ calls' = f.calls
    /\ invoked' = f.invoked
    /\ raised' = f.raised
    /\ last' = op
    /\ will_callers' = IF WillCount(f.calls) > 0 THEN will_callers \cup {d} ELSE will_callers

\* a handler run to completion by the one context there is
Commit(d, f, op) == CommitFields(d, f, op) /\ UNCHANGED <<pc, clock, attrs_history>>

(***************************************************************************)
(* Operations.                                                             *)
(***************************************************************************)
\* Device_Base.__init__: the new device is instance number instance_count + 1
Construct(exts, sh) ==
    /\ instance_count < MaxDevices
    /\ LET d == instance_count + 1
       IN  /\ instance_count' = d
           /\ tracked' = tracked \cup {d}
           /\ extensions' = [extensions EXCEPT ![d] = exts]
           /\ shared' = [shared EXCEPT ![d] = sh]
           /\ last' = Op("__init__", d, "", FALSE)
    /\ calls' = <<>>
    /\ invoked' = <<>>
    /\ raised' = "none"
    /\ UNCHANGED <<repeating_timer, start_time, _mqtt_connected, _state, nodes,
                   nodes_published, mqtt_subscription_handlers, client_connected,
                   edge_runs, will_callers, pc, clock, started_at, sequence_done,
                   state_published, attrs_history>>

\* Device_Base.__init__ of a device the application then leaves alone
ConstructOther ==
    /\ instance_count < MaxDevices
    /\ instance_count' = instance_count + 1
    /\ last' = Op("__init__", instance_count + 1, "", FALSE)
    /\ calls' = <<>>
    /\ invoked' = <<>>
    /\ raised' = "none"
    /\ UNCHANGED <<repeating_timer, tracked, extensions, shared, start_time,
                   _mqtt_connected, _state, nodes, nodes_published,
                   mqtt_subscription_handlers, client_connected, edge_runs,
                   will_callers, pc, clock, started_at, sequence_done,
                   state_published, attrs_history>>

\* the transport connects or disconnects a client (mqtt_client.mqtt_connected)
TransportEvent(c, connected) ==
    /\ c \in {ClientOf(d) : d \in tracked}
    /\ client_connected[c] # connected
    /\ client_connected' = [client_connected EXCEPT ![c] = connected]
    /\ last' = Op("transport", c, "", connected)
    /\ calls' = <<>>
    /\ invoked' = <<>>
    /\ raised' = "none"
    /\ UNCHANGED <<instance_count, repeating_timer, tracked, extensions, shared,
                   start_time, _mqtt_connected, _state, nodes, nodes_published,
                   mqtt_subscription_handlers, edge_runs, will_callers, pc, clock,
                   started_at, sequence_done, state_published, attrs_history>>

\* Device_Base.start, called once per device
Start(d) ==
    /\ d \in tracked
    /\ start_time[d] = "None"
    /\ repeating_timer' =
          IF Contains(extensions[d], "stats")
          THEN (IF repeating_timer = "None" THEN <<d>> ELSE Append(repeating_timer, d))
          ELSE repeating_timer
    /\ LET g == [Frame(d) EXCEPT !.start = "set", !.since = clock]
           f == IF client_connected[ClientOf(d)] THEN mqtt_on_connection(g, d, TRUE) ELSE g
       IN  /\ Commit(d, f, Op("start", d, "", FALSE))
           /\ edge_runs' = [edge_runs EXCEPT ![d] = @ + SequencesBegun(d, f.calls)]
    /\ UNCHANGED <<instance_count, tracked, extensions, shared, client_connected>>

\* Device_Base.mqtt_on_connection, called by the transport with its client's
\* status, any number of times for one status
MqttOnConnection(d, connected) ==
    /\ d \in tracked
    /\ client_connected[ClientOf(d)] = connected
    /\ LET f == mqtt_on_connection(Frame(d), d, connected)
       IN  /\ Commit(d, f, Op("mqtt_on_connection", d, "", connected))
           /\ edge_runs' = [edge_runs EXCEPT ![d] =
                               IF connected THEN @ + SequencesBegun(d, f.calls) ELSE 0]
    /\ UNCHANGED <<instance_count, repeating_timer, tracked, extensions, shared,
                   client_connected>>

\* an assignment to Device_Base.state
SetState(d, state) ==
    /\ d \in tracked
    /\ Commit(d, state_setter(Frame(d), d, state), Op("state", d, state, FALSE))
    /\ UNCHANGED <<instance_count, repeating_timer, tracked, extensions, shared,
                   client_connected, edge_runs>>

\* Device_Base.add_node
AddNode(d, n) ==
    /\ d \in tracked
    /\ Commit(d, add_node(Frame(d), d, n), Op("add_node", d, n, FALSE))
    /\ UNCHANGED <<instance_count, repeating_timer, tracked, extensions, shared,
                   client_connected, edge_runs>>

\* topics of the messages the transport delivers: the subscribed ones, the
\* nodes' set topics and a topic under the broadcast wildcard
MessageTopics(d) ==
    DOMAIN mqtt_subscription_handlers[d] \cup NodeTopics(d) \cup {Topic(d, "$broadcast/alert")}

\* Device_Base.mqtt_on_message
MqttOnMessage(d, t, retain) ==
    /\ d \in tracked
    /\ Commit(d, mqtt_on_message(Frame(d), t, "payload", retain, 0),
              Op("mqtt_on_message", d, t, retain))
    /\ UNCHANGED <<instance_count, repeating_timer, tracked, extensions, shared,
                   client_connected, edge_runs>>

\* Device_Base.remove_node
RemoveNode(d, n) ==
    /\ d \in tracked
    /\ Commit(d, remove_node(Frame(d), d, n), Op("remove_node", d, n, FALSE))
    /\ UNCHANGED <<instance_count, repeating_timer, tracked, extensions, shared,
                   client_connected, edge_runs>>

\* topics handed to remove_subscription: the registered ones, the nodes' set
\* topics and the broadcast wildcard
RemovalTopics(d) ==
    DOMAIN mqtt_subscription_handlers[d] \cup NodeTopics(d) \cup {Topic(d, "$broadcast/#")}

\* Device_Base.remove_subscription
RemoveSubscription(d, t) ==
    /\ d \in tracked
    /\ Commit(d, remove_subscription(Frame(d), t), Op("remove_subscription", d, t, FALSE))
    /\ UNCHANGED <<instance_count, repeating_timer, tracked, extensions, shared,
                   client_connected, edge_runs>>

\* Device_Base.cleanup, registered with atexit by the constructor (l.93) and
\* callable before
Cleanup(d) ==
    /\ d \in tracked
    /\ Commit(d, cleanup(Frame(d), d), Op("cleanup", d, "", FALSE))
    /\ UNCHANGED <<instance_count, repeating_timer, tracked, extensions, shared,
                   client_connected, edge_runs>>

\* Device_Base.publish_uptime, called by the repeating timer start() added it
\* to (l.113) or by the application
PublishUptime(d) ==
    /\ d \in tracked
    /\ Commit(d, publish_uptime(Frame(d), d, TRUE, 1), Op("publish_uptime", d, "", FALSE))
    /\ UNCHANGED <<instance_count, repeating_timer, tracked, extensions, shared,
                   client_connected, edge_runs>>

\* Device_Base.publish_attributes called by the application
PublishAttributes(d) ==
    /\ d \in tracked
    /\ Commit(d, publish_attributes(Frame(d), d, TRUE, 1), Op("publish_attributes", d, "", FALSE))
    /\ UNCHANGED <<instance_count, repeating_timer, tracked, extensions, shared,
                   client_connected, edge_runs>>

\* Device_Base.publish_attributes called by the application, the publishes of
\* the call kept next to those of the device's previous call
PublishAttributesAgain(d) ==
    /\ d \in tracked
    /\ LET f == publish_attributes(Frame(d), d, TRUE, 1)
       IN  /\ CommitFields(d, f, Op("publish_attributes", d, "", FALSE))
           /\ attrs_history' = IF attrs_history = <<>> THEN <<f.calls>>
                                ELSE <<attrs_history[Len(attrs_history)], f.calls>>
    /\ UNCHANGED <<instance_count, repeating_timer, tracked, extensions, shared,
                   client_connected, edge_runs, pc, clock>>

\* time passes
Tick ==
    /\ clock < MaxClock
    /\ clock' = clock + 1
    /\ UNCHANGED <<instance_count, repeating_timer, tracked, extensions, shared,
                   start_time, _mqtt_connected, _state, nodes, nodes_published,
                   mqtt_subscription_handlers, client_connected, calls, invoked,
                   raised, last, edge_runs, will_callers, pc, started_at,
                   sequence_done, state_published, attrs_history>>

(***************************************************************************)
(* Spec: one device, exercised through its whole interface, in a process   *)
(* where other device instances may be constructed before or after it.     *)
(***************************************************************************)
Next ==
    \/ tracked = {} /\ \E exts \in ExtensionChoices, sh \in BOOLEAN : Construct(exts, sh)
    \/ tracked = {} /\ ConstructOther
    \/ \E c \in Clients, b \in BOOLEAN : TransportEvent(c, b)
    \/ \E d \in Devices : Start(d)
    \/ \E d \in Devices, b \in BOOLEAN : MqttOnConnection(d, b)
    \/ \E d \in Devices, s \in StateInputs : SetState(d, s)
    \/ \E d \in Devices, n \in NodeIds : AddNode(d, n)
    \/ \E d \in Devices, b \in BOOLEAN : \E t \in MessageTopics(d) : MqttOnMessage(d, t, b)

Spec == Init /\ [][Next]_vars

(***************************************************************************)
(* SharedSpec: device instances constructed with the default extensions on *)
(* one shared transport connection, each started once, with the connect    *)
(* and disconnect events of the connection delivered to each of them.      *)
(***************************************************************************)
SharedNext ==
    \/ Construct(DefaultExtensions, TRUE)
    \/ \E b \in BOOLEAN : TransportEvent(0, b)
    \/ \E d \in Devices : Start(d)
    \/ \E d \in Devices, b \in BOOLEAN : MqttOnConnection(d, b)

SharedSpec == Init /\ [][SharedNext]_vars

(***************************************************************************)
(* DeviceSpec: one device and every operation the application and the      *)
(* timer have on it: state assignments, publish_attributes, publish_uptime,*)
(* cleanup and the changes of the node and subscription registries, at any *)
(* time before, between and after the connect and disconnect events.       *)
(***************************************************************************)
DeviceNext ==
    \/ tracked = {} /\ \E exts \in ExtensionChoices, sh \in BOOLEAN : Construct(exts, sh)
    \/ \E c \in Clients, b \in BOOLEAN : TransportEvent(c, b)
    \/ \E d \in Devices : Start(d)
    \/ \E d \in Devices, b \in BOOLEAN : MqttOnConnection(d, b)
    \/ \E d \in Devices, st \in StateInputs : SetState(d, st)
    \/ \E d \in Devices, n \in NodeIds : AddNode(d, n)
    \/ \E d \in Devices, n \in NodeIds : RemoveNode(d, n)
    \/ \E d \in Devices : \E t \in RemovalTopics(d) : RemoveSubscription(d, t)
    \/ \E d \in Devices : PublishAttributes(d)
    \/ \E d \in Devices : PublishUptime(d)
    \/ \E d \in Devices : Cleanup(d)

DeviceSpec == Init /\ [][DeviceNext]_vars

(***************************************************************************)
(* AttrSpec: publish_attributes() as a function of the device it is called *)
(* on.  The device is constructed with any list of known extensions; the   *)
(* application starts it, assigns its state and calls publish_attributes() *)
(* at any time, while time passes.                                         *)
(***************************************************************************)
\* the lists of known extensions, each of which passes the assert of l.70-71
AllExtensionLists ==
    {<<>>, <<"stats">>, <<"firmware">>, <<"meta">>, <<"stats", "firmware">>,
     <<"stats", "meta">>, <<"firmware", "meta">>, DefaultExtensions}

AttrInit ==
    /\ instance_count = 1
    /\ repeating_timer = "None"
    /\ tracked = {1}
    /\ \E exts \in AllExtensionLists :
          extensions = [d \in Devices |-> IF d = 1 THEN exts ELSE <<>>]
    /\ shared = [d \in Devices |-> FALSE]
    /\ start_time = [d \in Devices |-> "None"]
    /\ _mqtt_connected = [d \in Devices |-> FALSE]
    /\ _state = [d \in Devices |-> "init"]
    /\ nodes = [d \in Devices |-> <<>>]
    /\ nodes_published = [d \in Devices |-> FALSE]
    /\ mqtt_subscription_handlers = [d \in Devices |-> <<>>]
    /\ client_connected = [c \in Clients |-> FALSE]
    /\ calls = <<>>
    /\ invoked = <<>>
    /\ raised = "none"
    /\ last = Op("__init__", 1, "", FALSE)
    /\ edge_runs = [d \in Devices |-> 0]
    /\ will_callers = {}
    /\ pc = [c \in Contexts |-> "idle"]
    /\ clock = 0
    /\ started_at = [d \in Devices |-> 0]
    /\ sequence_done = [d \in Devices |-> FALSE]
    /\ state_published = [d \in Devices |-> "none"]
    /\ attrs_history = <<>>

AttrNext ==
    \/ Tick
    \/ Start(1)
    \/ \E s \in DEVICE_STATES : SetState(1, s)
    \/ PublishAttributesAgain(1)

AttrSpec == AttrInit /\ [][AttrNext]_vars

(***************************************************************************)
(* ConcSpec: one device and the two execution contexts that call into it,  *)
(* interleaved statement by statement.  The transport's thread delivers    *)
(* mqtt_on_connection; the application's thread runs start(), which calls  *)
(* mqtt_on_connection(True) itself when the client is already connected.   *)
(* Device_Base holds no lock, so a context may be preempted between any    *)
(* two statements of mqtt_on_connection.                                   *)
(***************************************************************************)
ConcInit ==
    /\ instance_count = 1
    /\ repeating_timer = "None"
    /\ tracked = {1}
    /\ \E exts \in ExtensionChoices :
          extensions = [d \in Devices |-> IF d = 1 THEN exts ELSE <<>>]
    /\ \E sh \in BOOLEAN : shared = [d \in Devices |-> d = 1 /\ sh]
    /\ start_time = [d \in Devices |-> "None"]
    /\ _mqtt_connected = [d \in Devices |-> FALSE]
    /\ _state = [d \in Devices |-> "init"]
    /\ nodes \in {[d \in Devices |-> IF d = 1 THEN ns ELSE <<>>] : ns \in {<<>>, <<NodeNames[1]>>}}
    /\ nodes_published = [d \in Devices |-> FALSE]
    /\ mqtt_subscription_handlers = [d \in Devices |-> <<>>]
    /\ client_connected = [c \in Clients |-> FALSE]
    /\ calls = <<>>
    /\ invoked = <<>>
    /\ raised = "none"
    /\ last = Op("__init__", 1, "", FALSE)
    /\ edge_runs = [d \in Devices |-> 0]
    /\ will_callers = {}
    /\ pc = [c \in Contexts |-> "idle"]
    /\ clock = 0
    /\ started_at = [d \in Devices |-> 0]
    /\ sequence_done = [d \in Devices |-> FALSE]
    /\ state_published = [d \in Devices |-> "none"]
    /\ attrs_history = <<>>

ConcFrame == <<instance_count, tracked, extensions, shared>>

\* a statement of context c run on the device: the frame f written back, the
\* context moved to statement next (back to idle when f ended in an exception)
Statement(c, f, next, op) ==
    /\ CommitFields(1, f, Op(op, 1, c, FALSE))
    /\ pc' = [pc EXCEPT ![c] = IF f.raised # "none" THEN "idle" ELSE next]
    /\ UNCHANGED <<clock, attrs_history>>

\* the transport's thread: the client connects, and the thread enters
\* mqtt_on_connection(True)
TransportConnects ==
    /\ pc["transport"] = "idle"
    /\ client_connected[ClientOf(1)] = FALSE
    /\ client_connected' = [client_connected EXCEPT ![ClientOf(1)] = TRUE]
    /\ Statement("transport", Frame(1), "test", "transport")
    /\ UNCHANGED <<ConcFrame, repeating_timer, edge_runs>>

\* the transport's thread: the client disconnects, and the thread runs
\* mqtt_on_connection(False), one assignment (l.247)
TransportDisconnects ==
    /\ pc["transport"] = "idle"
    /\ client_connected[ClientOf(1)] = TRUE
    /\ client_connected' = [client_connected EXCEPT ![ClientOf(1)] = FALSE]
    /\ Statement("transport", mqtt_on_connection(Frame(1), 1, FALSE), "idle", "mqtt_on_connection")
    /\ edge_runs' = [edge_runs EXCEPT ![1] = 0]
    /\ UNCHANGED <<ConcFrame, repeating_timer>>

\* the application's thread: start() up to its test of mqtt_client.mqtt_connected
\* (l.106-115)
StartBegins ==
    /\ pc["application"] = "idle"
    /\ start_time[1] = "None"
    /\ repeating_timer' = IF Contains(extensions[1], "stats") THEN <<1>> ELSE repeating_timer
    /\ Statement("application", [Frame(1) EXCEPT !.start = "set", !.since = clock],
                 IF client_connected[ClientOf(1)] THEN "test" ELSE "idle", "start")
    /\ UNCHANGED <<ConcFrame, client_connected, edge_runs>>

\* l.237-238: the test of the guard flag
TestFlag(c) ==
    /\ pc[c] = "test"
    /\ Statement(c, Frame(1), IF _mqtt_connected[1] = FALSE THEN "set" ELSE "idle", "test")
    /\ UNCHANGED <<ConcFrame, repeating_timer, client_connected, edge_runs>>

\* l.239: the guard flag is set
SetFlag(c) ==
    /\ pc[c] = "set"
    /\ Statement(c, [Frame(1) EXCEPT !.conn = TRUE], "publish_attributes", "set")
    /\ edge_runs' = [edge_runs EXCEPT ![1] = @ + 1]
    /\ UNCHANGED <<ConcFrame, repeating_timer, client_connected>>

\* l.240
StepPublishAttributes(c) ==
    /\ pc[c] = "publish_attributes"
    /\ Statement(c, publish_attributes(Frame(1), 1, TRUE, 1), "publish_nodes", "publish_attributes")
    /\ UNCHANGED <<ConcFrame, repeating_timer, client_connected, edge_runs>>

\* l.241
StepPublishNodes(c) ==
    /\ pc[c] = "publish_nodes"
    /\ Statement(c, publish_nodes(Frame(1), 1, TRUE, 1), "subscribe_topics", "publish_nodes")
    /\ UNCHANGED <<ConcFrame, repeating_timer, client_connected, edge_runs>>

\* l.242
StepSubscribeTopics(c) ==
    /\ pc[c] = "subscribe_topics"
    /\ Statement(c, subscribe_topics(Frame(1), 1), "set_will", "subscribe_topics")
    /\ UNCHANGED <<ConcFrame, repeating_timer, client_connected, edge_runs>>

\* l.243-245
StepSetWill(c) ==
    /\ pc[c] = "set_will"
    /\ Statement(c, SetWill(Frame(1), 1), "idle", "set_will")
    /\ UNCHANGED <<ConcFrame, repeating_timer, client_connected, edge_runs>>

ConcNext ==
    \/ TransportConnects
    \/ TransportDisconnects
    \/ StartBegins
    \/ \E c \in Contexts : TestFlag(c)
    \/ \E c \in Contexts : SetFlag(c)
    \/ \E c \in Contexts : StepPublishAttributes(c)
    \/ \E c \in Contexts : StepPublishNodes(c)
    \/ \E c \in Contexts : StepSubscribeTopics(c)
    \/ \E c \in Contexts : StepSetWill(c)

ConcSpec == ConcInit /\ [][ConcNext]_vars

(***************************************************************************)
(* Properties.                                                             *)
(***************************************************************************)
\* the handlers that can run the on-connect sequence
ConnectOps == {"mqtt_on_connection", "start"}

\* the last handler ran the on-connect sequence of its device to the end
CompletedSequence ==
    /\ last.op \in ConnectOps
    /\ raised = "none"
    /\ SequencesBegun(last.dev, calls) = 1

IsReadyPublish(d, c) ==
    c.op = "publish" /\ c.topic = Topic(d, "$state") /\ c.payload = "ready"

IsNodesPublish(d, c) ==
    \/ c.op = "publish" /\ c.topic = Topic(d, "$nodes")
    \/ c.op = "node.publish_attributes"

IsAttributePublish(d, c) ==
    c.op = "publish" /\ c.topic \notin {Topic(d, "$nodes"), Topic(d, "$state")}

\* the step of the on-connect sequence a transport call belongs to
Phase(d, c) ==
    IF c.op = "set_will" THEN 4
    ELSE IF c.op = "subscribe" THEN 3
    ELSE IF IsNodesPublish(d, c) THEN 2
    ELSE 1

TheWill(d) == Call("set_will", Topic(d, "$state"), "lost", TRUE, 1)

\* C1: between two disconnect events of a device (or since its construction),
\* however often mqtt_on_connection(True) is delivered, by the transport or by
\* start(), the on-connect sequence is run at most once.
C1_OncePerConnectEdge == \A d \in Devices : edge_runs[d] <= 1

\* C1 witness: a repeated connect event that found the guard set and did nothing
C1_Witness ==
    /\ last.op = "mqtt_on_connection" /\ last.flag
    /\ calls = <<>>
    /\ edge_runs[last.dev] = 1
    /\ start_time[last.dev] = "set"

\* C2 as stated: two devices on one shared transport make one set_will call in
\* total, by the first-created instance: once a call has been made no later
\* handler makes another.
C2_OneWillInTotal ==
    /\ [](will_callers \subseteq {1})
    /\ [][will_callers # {} => WillCount(calls') = 0]_vars

\* C2 amended: on a shared transport only the first-created instance ever calls
\* set_will, at most once per handler, and it does so in each of its connect
\* sequences that runs to the end (so again on every reconnect); no handler of
\* another instance calls it.
C2_WillOnEveryConnectOfFirst ==
    /\ will_callers \subseteq {1}
    /\ WillCount(calls) <= 1
    /\ WillCount(calls) = 1 => last.op \in ConnectOps /\ last.dev = 1
    /\ (CompletedSequence /\ last.dev = 1) => WillCount(calls) = 1

\* C2 witness: the second instance has run its connect sequence to the end
\* without a set_will call, after the first instance made one
C2_Witness ==
    /\ CompletedSequence /\ last.dev = 2
    /\ WillCount(calls) = 0
    /\ will_callers = {1}
    /\ instance_count = 2

\* C3 as stated: in a connect sequence the device attributes are published before
\* $nodes and the node attributes, and those before $state = ready.
C3_NodesBeforeReady ==
    last.op \in ConnectOps =>
        \A i, j \in 1..Len(calls) :
            /\ (IsAttributePublish(last.dev, calls[i]) /\ IsNodesPublish(last.dev, calls[j])) => i < j
            /\ (IsNodesPublish(last.dev, calls[i]) /\ IsReadyPublish(last.dev, calls[j])) => i < j

\* C4: the transport calls of a handler that runs the on-connect sequence are in
\* step order: attribute publishes, then $nodes and the node attributes, then
\* the subscribe calls, then set_will.
C4_StepsInOrder ==
    last.op \in ConnectOps =>
        \A i, j \in 1..Len(calls) :
            i < j => Phase(last.dev, calls[i]) <= Phase(last.dev, calls[j])

\* C4 witness: a connect sequence of a device with a node in which all four steps
\* made calls
C4_Witness ==
    /\ CompletedSequence
    /\ nodes[last.dev] # <<>>
    /\ \A ph \in 1..4 : \E i \in 1..Len(calls) : Phase(last.dev, calls[i]) = ph
    /\ \E i \in 1..Len(calls) : calls[i].op = "node.publish_attributes"
    /\ \E i \in 1..Len(calls) : calls[i].op = "subscribe" /\ calls[i].topic \in NodeTopics(last.dev)

\* the context is past the guard of mqtt_on_connection and has not yet left it
InSequence(c) ==
    pc[c] \in {"publish_attributes", "publish_nodes", "subscribe_topics", "set_will"}

\* C5 as stated: two invocations of the on-connect sequence of one device are
\* never in progress at the same time.
C5_NoInterleavedSequences == ~(InSequence("transport") /\ InSequence("application"))

\* C6: an assignment of a value of the enumeration to state leaves that value in
\* _state and makes one publish, of that value, retained, to <topic>/$state.
C6_ValidStatePublishedOnce ==
    (last.op = "state" /\ last.arg \in DEVICE_STATES) =>
        /\ _state[last.dev] = last.arg
        /\ calls = <<Call("publish", Topic(last.dev, "$state"), last.arg, TRUE, 1)>>
        /\ raised = "none"

\* C6 witness: state was assigned alert while it held another value
C6_Witness ==
    /\ last.op = "state" /\ last.arg = "alert"
    /\ _state[last.dev] = "alert"
    /\ Len(calls) = 1

\* C7: an assignment of a value outside the enumeration to state changes no
\* field of the device, makes no transport call and raises nothing.
C7_InvalidStateIsNoOp ==
    [][(last'.op = "state" /\ last'.arg \notin DEVICE_STATES) =>
          /\ _state' = _state
          /\ calls' = <<>>
          /\ raised' = "none"
          /\ UNCHANGED <<start_time, _mqtt_connected, nodes, nodes_published,
                         mqtt_subscription_handlers, will_callers>>]_vars

\* C7 witness: a value outside the enumeration was assigned to a device that is
\* ready
C7_Witness ==
    /\ last.op = "state" /\ last.arg \notin DEVICE_STATES
    /\ _state[last.dev] = "ready"
    /\ calls = <<>>

\* C8: a message delivered with the retained flag set invokes no handler,
\* whatever its topic and whatever the registry holds.
C8_RetainedNeverDispatched ==
    (last.op = "mqtt_on_message" /\ last.flag) => invoked = <<>>

\* C8 witness: a retained message arrived on a subscribed topic
C8_Witness ==
    /\ last.op = "mqtt_on_message" /\ last.flag
    /\ last.arg \in DOMAIN mqtt_subscription_handlers[last.dev]
    /\ last.arg \in NodeTopics(last.dev)

\* C9: a message that is not retained invokes, once and with (topic, payload),
\* the handler registered for exactly its topic and no other; for a topic that
\* is not registered it invokes nothing and raises nothing.
C9_FreshDispatchedToExactTopic ==
    (last.op = "mqtt_on_message" /\ ~last.flag) =>
        LET subs == mqtt_subscription_handlers[last.dev]
        IN  /\ raised = "none"
            /\ last.arg \in DOMAIN subs =>
                  invoked = <<[handler |-> subs[last.arg], topic |-> last.arg,
                               payload |-> "payload"]>>
            /\ last.arg \notin DOMAIN subs => invoked = <<>>

\* C9 witness: a fresh message on a topic under the subscribed broadcast
\* wildcard, which is not itself a key of the registry, while a node topic is
\* subscribed
C9_Witness ==
    /\ last.op = "mqtt_on_message" /\ ~last.flag
    /\ last.arg = Topic(last.dev, "$broadcast/alert")
    /\ Topic(last.dev, "$broadcast/#") \in DOMAIN mqtt_subscription_handlers[last.dev]
    /\ NodeTopics(last.dev) \subseteq DOMAIN mqtt_subscription_handlers[last.dev]
    /\ invoked = <<>>

\* C10: a connect sequence that runs to its last-will step calls set_will, with
\* $state = lost retained, exactly when the device's client is not shared or the
\* device is the first instance of the process; no other handler and no other
\* device calls set_will.
C10_WillIffUnsharedOrFirst ==
    /\ \A d \in will_callers : shared[d] = FALSE \/ d = 1
    /\ \A i \in 1..Len(calls) :
          calls[i].op = "set_will" => (CompletedSequence /\ calls[i] = TheWill(last.dev))
    /\ CompletedSequence =>
          (WillCount(calls) = 1 <=> (shared[last.dev] = FALSE \/ last.dev = 1))

\* C10 witness: a device on a shared client that is not the first instance ran
\* its connect sequence to the end
C10_Witness ==
    /\ CompletedSequence
    /\ shared[last.dev] /\ last.dev > 1
    /\ WillCount(calls) = 0

\* C11 as stated: when start() returns and the transport was connected at the
\* call, the on-connect sequence has run to its end for this connection (the
\* attributes and $nodes are published, the topics subscribed), also when the
\* connect event was delivered to the device before start() was called.
C11_StartedWhileConnectedIsUp ==
    (last.op = "start" /\ raised = "none" /\ client_connected[ClientOf(last.dev)]) =>
        /\ sequence_done[last.dev]
        /\ nodes_published[last.dev]
        /\ Topic(last.dev, "$broadcast/#") \in DOMAIN mqtt_subscription_handlers[last.dev]

\* C12: publish_attributes() publishes $homie, $name and $implementation first
\* and in this order, then the extension publishes ($extensions first of them),
\* and $state only as its last publish; when it returns that publish is
\* $state = ready and _state is ready, whatever it was before the call.
C12_AttributesThenReady ==
    last.op = "publish_attributes" =>
        LET d == last.dev
            n == Len(calls)
        IN  /\ n >= 3
            /\ \A i \in 1..n : calls[i].op = "publish" /\ calls[i].retain /\ calls[i].qos = 1
            /\ calls[1].topic = Topic(d, "$homie") /\ calls[1].payload = HOMIE_SETTINGS.version
            /\ calls[2].topic = Topic(d, "$name")
            /\ calls[3].topic = Topic(d, "$implementation")
            /\ \A i \in 4..n :
                  /\ calls[i].topic \notin {Topic(d, "$homie"), Topic(d, "$name")}
                  /\ calls[i].topic = Topic(d, "$extensions") => i = 4
                  /\ calls[i].topic = Topic(d, "$state") => (i = n /\ calls[i].payload = "ready")
            /\ raised = "none" =>
                  /\ IsReadyPublish(d, calls[n])
                  /\ _state[d] = "ready"
                  /\ extensions[d] # <<>> => calls[4].topic = Topic(d, "$extensions")
                  /\ Contains(extensions[d], "stats") =>
                        \E i \in 5..(n - 1) : calls[i].topic = Topic(d, "$stats/uptime")
                  /\ Contains(extensions[d], "firmware") =>
                        \E i \in 5..(n - 1) : calls[i].topic = Topic(d, "$fw/name")

\* C12 witness: publish_attributes() returned on a device with the stats and
\* firmware extensions whose earlier call, made before start(), an exception stopped
C12_Witness ==
    /\ last.op = "publish_attributes"
    /\ raised = "none"
    /\ extensions[1] = DefaultExtensions
    /\ Len(attrs_history) = 2
    /\ state_published[1] = "ready"
    /\ LET first == attrs_history[1]
       IN  first[Len(first)].topic # Topic(1, "$state")

\* a call of publish_attributes() with publishes cs returned
Returned(cs) == cs # <<>> /\ cs[Len(cs)].topic = Topic(1, "$state")

\* the topics whose payload is a reading of the clock
TimeTopics == {Topic(1, "$stats/uptime"), Topic(1, "$stats/lastupdate")}

\* C13 as stated: two calls of publish_attributes() on one device that both
\* return make the same sequence of (topic, payload, retain, qos) publishes.
C13_SamePublishesTwice ==
    (Len(attrs_history) = 2 /\ Returned(attrs_history[1]) /\ Returned(attrs_history[2])) =>
        attrs_history[1] = attrs_history[2]

\* C13 amended: the second of two calls of publish_attributes() repeats the
\* publishes of the first, topic by topic with the same retain and qos and,
\* except for $stats/uptime and $stats/lastupdate, the same payload; it makes as
\* many publishes as the first when the first returned, and continues the
\* sequence when the first was stopped by an exception.
C13_SameTopicsTwice ==
    Len(attrs_history) = 2 =>
        LET a == attrs_history[1]
            b == attrs_history[2]
        IN  /\ Len(a) <= Len(b)
            /\ Returned(a) => Len(a) = Len(b)
            /\ \A i \in 1..Len(a) :
                  /\ a[i].op = b[i].op
                  /\ a[i].topic = b[i].topic
                  /\ a[i].retain = b[i].retain
                  /\ a[i].qos = b[i].qos
                  /\ a[i].topic \notin TimeTopics => a[i].payload = b[i].payload

\* C13 witness: two calls on a started device with the stats extension returned
\* with different payloads, time having passed between them
C13_Witness ==
    /\ Len(attrs_history) = 2
    /\ Returned(attrs_history[1]) /\ Returned(attrs_history[2])
    /\ Contains(extensions[1], "stats")
    /\ attrs_history[1] # attrs_history[2]

\* the calls of publish_nodes(retain, qos) on a device d whose registry holds ns
NodesRepublished(d, ns, retain, qos) ==
    <<Call("publish", Topic(d, "$nodes"), Join(",", ns), retain, qos)>>
        \o [i \in 1..Len(ns) |->
               Call("node.publish_attributes", Join("/", <<topic(d), ns[i]>>), "", retain, qos)]

C15_RemoveSubscription ==
    [][last'.op = "remove_subscription" =>
          LET d == last'.dev
              t == last'.arg
              before == mqtt_subscription_handlers[d]
              after == mqtt_subscription_handlers'[d]
          IN  /\ t \notin DOMAIN before =>
                    /\ raised' = "KeyError"
                    /\ after = before
              /\ t \in DOMAIN before =>
                    /\ raised' = "none"
                    /\ calls' = <<Call("unsubscribe", t, "", FALSE, 0)>>
                    /\ DOMAIN after = (DOMAIN before) \ {t}
                    /\ \A x \in DOMAIN after : after[x] = before[x]
              /\ UNCHANGED <<_state, nodes, nodes_published, _mqtt_connected, start_time>>]_vars

\* C15 witness: a topic that is not registered was removed from a registry that
\* holds other topics
C15_Witness ==
    /\ last.op = "remove_subscription"
    /\ raised = "KeyError"
    /\ last.arg \notin DOMAIN mqtt_subscription_handlers[last.dev]
    /\ mqtt_subscription_handlers[last.dev] # <<>>

\* C16: mqtt_on_connection(False) clears _mqtt_connected and does nothing else:
\* _state, the node registry, nodes_published, the subscription registry and
\* start_time keep their values and no call is made on the transport.
C16_DisconnectOnlyClearsFlag ==
    [][(last'.op = "mqtt_on_connection" /\ ~last'.flag) =>
          /\ _mqtt_connected'[last'.dev] = FALSE
          /\ calls' = <<>>
          /\ invoked' = <<>>
          /\ raised' = "none"
          /\ UNCHANGED <<_state, nodes, nodes_published, mqtt_subscription_handlers,
                         start_time, state_published, will_callers>>]_vars

\* C16 witness: a disconnect event was handled by a device that had run its
\* connect sequence and is ready, with a node published and topics subscribed
C16_Witness ==
    /\ last.op = "mqtt_on_connection" /\ ~last.flag
    /\ ~_mqtt_connected[last.dev]
    /\ _state[last.dev] = "ready"
    /\ nodes_published[last.dev]
    /\ nodes[last.dev] # <<>>
    /\ NodeTopics(last.dev) \subseteq DOMAIN mqtt_subscription_handlers[last.dev]

\* C17: remove_node of an id in the registry deletes it; while nodes_published is
\* true it then republishes $nodes, listing the ids that remain, with retain
\* false (and has each remaining node publish its attributes, unretained), and
\* while nodes_published is false it makes no call; no step of any operation
\* takes nodes_published from true to false.
C17_RemoveNodeRepublishesUnretained ==
    [][/\ (last'.op = "remove_node" /\ Contains(nodes[last'.dev], last'.arg)) =>
              LET d == last'.dev
              IN  /\ nodes'[d] = SelectSeq(nodes[d], LAMBDA x : x # last'.arg)
                  /\ raised' = "none"
                  /\ nodes_published[d] => calls' = NodesRepublished(d, nodes'[d], FALSE, 1)
                  /\ ~nodes_published[d] => calls' = <<>>
       /\ \A d \in Devices : nodes_published[d] => nodes_published'[d]]_vars

\* C17 witness: a node was removed from a device that had published its nodes
C17_Witness ==
    /\ last.op = "remove_node"
    /\ raised = "none"
    /\ nodes_published[last.dev]
    /\ calls # <<>>
    /\ calls[1].topic = Topic(last.dev, "$nodes") /\ calls[1].retain = FALSE

\* node n of device d has every topic of its get_subscriptions() in the
\* subscription registry, with its handler
NodeSubscribed(d, n) ==
    \A i \in 1..Len(NodeSubscriptions(d, n)) :
        LET sub == NodeSubscriptions(d, n)[i]
        IN  /\ sub.topic \in DOMAIN mqtt_subscription_handlers[d]
            /\ mqtt_subscription_handlers[d][sub.topic] = sub.handler

\* C18 as stated: while a device is connected and its connect sequence has run
\* to its end, every node in its registry is subscribed, those added after the
\* sequence included.
C18_NodesOfRegistrySubscribed ==
    \A d \in Devices :
        (_mqtt_connected[d] /\ sequence_done[d]) =>
            \A i \in 1..Len(nodes[d]) : NodeSubscribed(d, nodes[d][i])

\* C18 amended: when a connect sequence has run to its end, every node then in
\* the registry is subscribed, and so is the broadcast wildcard; add_node makes
\* no subscribe call, so a node added later is subscribed by the next sequence.
C18_SubscribedAtEndOfSequence ==
    /\ CompletedSequence =>
          /\ \A i \in 1..Len(nodes[last.dev]) : NodeSubscribed(last.dev, nodes[last.dev][i])
          /\ Topic(last.dev, "$broadcast/#") \in DOMAIN mqtt_subscription_handlers[last.dev]
    /\ last.op = "add_node" => \A i \in 1..Len(calls) : calls[i].op # "subscribe"

\* C18 witness: a connect event ran the sequence on a device whose registry is
\* full
C18_Witness ==
    /\ CompletedSequence
    /\ last.op = "mqtt_on_connection"
    /\ Len(nodes[last.dev]) = MaxNodes
    /\ \A i \in 1..Len(nodes[last.dev]) : NodeSubscribed(last.dev, nodes[last.dev][i])

\* C19: a handler that publishes to $stats/uptime, the connect sequence or
\* publish_uptime, runs on a device whose start_time start() has set.
C19_UptimeOnlyAfterStart ==
    \A i \in 1..Len(calls) :
        (calls[i].op = "publish" /\ calls[i].topic = Topic(last.dev, "$stats/uptime")) =>
            start_time[last.dev] = "set"

\* C19 witness: a connect event that came after start() published the uptime
C19_Witness ==
    /\ last.op = "mqtt_on_connection" /\ last.flag
    /\ raised = "none"
    /\ \E i \in 1..Len(calls) : calls[i].topic = Topic(last.dev, "$stats/uptime")

\* C20: _state of a device is the payload of its last publish to $state, and
\* init while it has made none.
C20_StateIsLastPublished ==
    \A d \in Devices :
        _state[d] = IF state_published[d] = "none" THEN "init" ELSE state_published[d]

\* C20 witness: cleanup ran on a connected device that had been ready
C20_Witness ==
    /\ last.op = "cleanup"
    /\ _mqtt_connected[last.dev] /\ nodes_published[last.dev]
    /\ state_published[last.dev] = "disconnected"
    /\ calls = <<Call("publish", Topic(last.dev, "$state"), "disconnected", TRUE, 1)>>

====
